---- MODULE Spec2Model ----
(***************************************************************************)
(* A model of lava_api/business.py: the LavaBusinessAPI client.            *)
(*                                                                         *)
(* Every invocation of create_invoice, get_balance and payoff is a         *)
(* coroutine with one suspension point (the HTTP POST): it is modelled by  *)
(* a *_call action (build fields, sign, post) and a *_return action        *)
(* (decode the response, classify it, map it).  handle_webhook is          *)
(* synchronous and is one action.                                          *)
(*                                                                         *)
(* Python values are tagged records (JV): the tag k is the Python type,    *)
(* "absent" standing for a key that is not in a dictionary.                *)
(***************************************************************************)
EXTENDS Integers, Sequences, FiniteSets, TLC

VARIABLES
    secret_key,   \* LavaBusinessAPI.secret_key
    op,           \* op[p]: the operation invocation p runs
    pc,           \* pc[p]: "idle", "awaiting" (POST issued, no response yet), "done"
    args,         \* args[p]: the arguments of invocation p
    request,      \* request[p]: the HTTP request invocation p posted
    response,     \* response[p]: the decoded JSON response invocation p received
    outcome,      \* outcome[p]: what invocation p returned or raised
    posts         \* posts[p]: the number of HTTP POSTs invocation p has issued

vars == <<secret_key, op, pc, args, request, response, outcome, posts>>

-----------------------------------------------------------------------------
(* Python values *)

JV(k, n, s, items, vals) == [k |-> k, n |-> n, s |-> s, items |-> items, vals |-> vals]

Absent == JV("absent", 0, "", <<>>, <<>>)
PyNone == JV("null", 0, "", <<>>, <<>>)
Num(i) == JV("num", i, "", <<>>, <<>>)
Str(t) == JV("str", 0, t, <<>>, <<>>)
Bool(b) == JV("bool", IF b THEN 1 ELSE 0, "", <<>>, <<>>)
List(items) == JV("list", 0, "", items, <<>>)
Dict(keys, vals) == JV("dict", 0, "", keys, vals)
\* a float, held in tenths
Float(tenths) == JV("float", tenths, "", <<>>, <<>>)
\* a datetime.datetime: its year, month, day, hour, minute, second
DateTime(parts) == JV("datetime", 0, "", parts, <<>>)
\* the value of datetime.datetime.now()
Now == JV("now", 0, "", <<>>, <<>>)

\* a dictionary whose values are themselves Python values (the response's
\* `data`): f maps every key of the universe to its value, Absent when the
\* key is not in the dictionary; k is the Python type of the value.
DV(k, f) == [k |-> k, f |-> f]

Range(seq) == {seq[i] : i \in 1..Len(seq)}

\* key in d
Has(d, key) == d[key].k /= "absent"
\* d.get(key, default)
Get(d, key, default) == IF Has(d, key) THEN d[key] ELSE default

\* v == i, for an int literal i
PyEq(v, i) == v.k = "num" /\ v.n = i

RECURSIVE JoinStr(_, _)
\* sep.join(parts), as one string
JoinStr(parts, sep) ==
    IF Len(parts) = 0 THEN ""
    ELSE IF Len(parts) = 1 THEN parts[1]
    ELSE parts[1] \o sep \o JoinStr(Tail(parts), sep)

\* str(v)
PyStr(v) ==
    CASE v.k = "str" -> v.s
      [] v.k = "num" -> ToString(v.n)
      [] v.k \in {"null", "absent"} -> "None"
      [] v.k = "list" ->
            "[" \o JoinStr([i \in 1..Len(v.items) |-> "'" \o v.items[i] \o "'"], ", ") \o "]"
      [] v.k = "dict" ->
            "{" \o JoinStr([i \in 1..Len(v.items) |->
                              "'" \o v.items[i] \o "': '" \o v.vals[i] \o "'"], ", ") \o "}"
      [] OTHER -> v.k

\* the strings of the model that int() parses
IntOfString == ("200" :> 200) @@ ("500" :> 500)

\* int(v): [exc |-> the exception raised, or "" ; v |-> the int]
PyInt(v) ==
    CASE v.k = "num" -> [exc |-> "", v |-> v]
      [] v.k = "str" ->
            IF v.s \in DOMAIN IntOfString
            THEN [exc |-> "", v |-> Num(IntOfString[v.s])]
            ELSE [exc |-> "ValueError", v |-> Absent]
      [] OTHER -> [exc |-> "TypeError", v |-> Absent]

\* the strings of the model that float() parses, in tenths
FloatOfString == ("10.0" :> 100) @@ ("9.5" :> 95)

\* float(v)
PyFloat(v) ==
    CASE v.k = "num" -> [exc |-> "", v |-> Float(10 * v.n)]
      [] v.k = "str" ->
            IF v.s \in DOMAIN FloatOfString
            THEN [exc |-> "", v |-> Float(FloatOfString[v.s])]
            ELSE [exc |-> "ValueError", v |-> Absent]
      [] OTHER -> [exc |-> "TypeError", v |-> Absent]

\* the strings of the model that match "%Y-%m-%d %H:%M:%S"
StrptimeOfString ==
    ("2023-01-02 03:04:05" :> <<"2023", "01", "02", "03", "04", "05">>)
    @@ ("2024-12-31 23:59:59" :> <<"2024", "12", "31", "23", "59", "59">>)

\* datetime.datetime.strptime(v, "%Y-%m-%d %H:%M:%S")
Strptime(v) ==
    CASE v.k = "str" ->
            IF v.s \in DOMAIN StrptimeOfString
            THEN [exc |-> "", v |-> DateTime(StrptimeOfString[v.s])]
            ELSE [exc |-> "ValueError", v |-> Absent]
      [] OTHER -> [exc |-> "TypeError", v |-> Absent]

-----------------------------------------------------------------------------
(* Outcomes: a returned value or a raised exception *)

Outcome(kind, description, message, code, value) ==
    [kind |-> kind, description |-> description, message |-> message,
     code |-> code, value |-> value]

\* return value: the positional fields of the dataclass, or the one value
Return(kind, value) == Outcome(kind, <<>>, Absent, Absent, value)

\* raise APIError subclass(description, message, code)
RaiseAPI(kind, description, message, code) ==
    Outcome(kind, description, message, code, <<>>)

\* raise an exception that has no code and no message fields
Raise(kind, description) == Outcome(kind, description, Absent, Absent, <<>>)

NoOutcome == Outcome("", <<>>, Absent, Absent, <<>>)

-----------------------------------------------------------------------------
(* Signer and order-id generator *)

\* the hex digest of HMAC-SHA256 under the key, idealised as collision-free:
\* the digest is the text that names the key and the string
generate_signature(key, string) == "hmac-sha256(" \o key \o ", " \o string \o ")"

\* the order ids generate_random_order_id can return (date, random, time, random)
generate_random_order_id == {"20230102-0007-030405-0042", "20230102-9999-030406-0000"}

\* json.dumps of one value
JsonValue(v) ==
    CASE v.k = "str" -> "\"" \o v.s \o "\""
      [] v.k = "num" -> ToString(v.n)
      [] v.k = "list" ->
            "[" \o JoinStr([i \in 1..Len(v.items) |-> "\"" \o v.items[i] \o "\""], ", ") \o "]"
      [] OTHER -> "null"

\* json.dumps(fields): fields is the dictionary in insertion order
json_dumps(fields) ==
    "{" \o JoinStr([i \in 1..Len(fields) |->
                      "\"" \o fields[i].key \o "\": " \o JsonValue(fields[i].value)], ", ")
        \o "}"

Field(key, value) == [key |-> key, value |-> value]

\* the field is set whether or not the argument is None
Optional_always(key, value) == <<Field(key, value)>>

\* fields[key] = value when the argument is not None
Optional(key, value) == IF value.k /= "null" THEN <<Field(key, value)>> ELSE <<>>

-----------------------------------------------------------------------------
(* Requests *)

\* session.post(url, json=fields, headers={"Accept": ..., "Signature": signature})
HttpPost(url, fields, signature) ==
    [url |-> url, json |-> fields,
     headers |-> [Accept |-> "application/json", Signature |-> signature]]

NoRequest == HttpPost("", <<>>, "")

\* create_invoice: the field set (a: the arguments, None when not supplied;
\* gen: what generate_random_order_id returns if it is called)
create_invoice_fields(a, gen) ==
    <<Field("orderId", IF a.order_id.k = "null" THEN Str(gen) ELSE a.order_id),
      Field("shopId", a.shop_id),
      Field("sum", a.amount)>>
    \o Optional("customFields", a.custom_field)
    \o Optional("comment", a.comment)
    \o Optional("hookUrl", a.webhook_url)
    \o Optional("failUrl", a.fail_url)
    \o Optional("successUrl", a.success_url)
    \o Optional("expire", a.expire)
    \o Optional("includeService", a.include_service)
    \o Optional("excludeService", a.exclude_service)

\* create_invoice, up to the POST
create_invoice_request(key, a, gen) ==
    LET fields == create_invoice_fields(a, gen)
        json_string == json_dumps(fields)
        signature == generate_signature(key, json_string)
    IN  HttpPost("https://api.lava.ru/business/invoice/create", fields, signature)

\* get_balance: the field set
get_balance_fields(a) == <<Field("shopId", a.shop_id)>>

\* get_balance, up to the POST
get_balance_request(key, a) ==
    LET fields == get_balance_fields(a)
        signature == generate_signature(key, json_dumps(fields))
    IN  HttpPost("https://api.lava.ru/business/shop/get-balance", fields, signature)

\* payoff: the field set
payoff_fields(a, gen) ==
    <<Field("orderId", IF a.order_id.k = "null" THEN Str(gen) ELSE a.order_id),
      Field("shopId", a.shop_id),
      Field("amount", a.amount),
      Field("service", Str(a.service.s \o "_payoff")),
      Field("walletTo", a.wallet)>>
    \o Optional("hookUrl", a.hook_url)

\* payoff, up to the POST
payoff_request(key, a, gen) ==
    LET fields == payoff_fields(a, gen)
        signature == generate_signature(key, json_dumps(fields))
    IN  HttpPost("https://api.lava.ru/business/payoff/create", fields, signature)

-----------------------------------------------------------------------------
(* Responses.  A decoded response is a JSON object                          *)
(* [status |-> JV, error |-> JV, data |-> DV].                              *)

RECURSIVE Interleave(_, _)
\* sep.join(keys), as the fragments of the text
Interleave(keys, sep) ==
    IF Len(keys) = 0 THEN <<>>
    ELSE IF Len(keys) = 1 THEN <<keys[1]>>
    ELSE <<keys[1], sep>> \o Interleave(Tail(keys), sep)

\* the subscripts of InvoiceInfo(...) that raise KeyError
InvoiceRequired == {"id", "amount", "expired", "status", "shop_id", "url"}

\* the argument's value stands in when the response has no list
ListOrArgument(x, d, key) ==
    LET y == Get(d, key, PyNone) IN
    IF y.k /= "null" THEN y ELSE IF x.k /= "null" THEN x ELSE List(<<>>)

\* x if (x := d.get(key, None)) is not None else []: x is the local name,
\* bound to the argument of the call until the expression rebinds it
ListOrEmpty(x, d, key) ==
    LET y == Get(d, key, PyNone) IN IF y.k /= "null" THEN y ELSE List(<<>>)

\* InvoiceInfo(invoice_data["id"], ...): a holds the arguments of the call,
\* whose names include_service and exclude_service the expression rebinds
InvoiceMapper(a, invoice_data) ==
    LET f == invoice_data.f IN
    IF invoice_data.k /= "dict" THEN Raise("TypeError", <<>>)
    ELSE IF \E key \in InvoiceRequired : ~Has(f, key) THEN Raise("KeyError", <<>>)
    ELSE Return("InvoiceInfo",
                <<f["id"], f["amount"], f["expired"], f["status"], f["shop_id"],
                  Get(f, "merchantName", Str("Merchant")),
                  f["url"],
                  Get(f, "comment", Str("Comment")),
                  ListOrEmpty(a.include_service, f, "include_service"),
                  ListOrEmpty(a.exclude_service, f, "exclude_service")>>)

\* create_invoice: the body of the try statement
create_invoice_try(a, response_json) ==
    LET request_status == Get(response_json, "status", Num(0))
        error == Get(response_json, "error", Str(""))
    IN  IF PyEq(request_status, 200) THEN
            IF response_json.data.k \in {"absent", "null"}
            THEN Raise("InvalidResponseException", <<"No '", "data", "' field">>)
            ELSE LET m == InvoiceMapper(a, response_json.data) IN
                 IF m.kind = "KeyError"
                 THEN Raise("InvalidResponseException",
                            <<"Error while reading data from dictionary">>)
                 ELSE m
        ELSE IF PyEq(request_status, 422) THEN
            IF error.k = "dict"
            THEN RaiseAPI("InvalidParameterException",
                          <<"Invalid parameters: ">> \o Interleave(error.items, ", ")
                            \o <<"; Code: ", PyStr(request_status),
                                 "; Message: ", PyStr(error)>>,
                          Str(PyStr(error)), request_status)
            ELSE Raise("InvalidResponseException",
                       <<"Invalid 'error' field: ", PyStr(error)>>)
        ELSE IF PyEq(request_status, 401) THEN
            RaiseAPI("InvalidSignatureException",
                     <<"Invalid signature. Code: ", PyStr(request_status),
                       "; Message: ", PyStr(error)>>,
                     error, request_status)
        ELSE
            RaiseAPI("CreateInvoiceException",
                     <<"Unexpected error. Code: ", PyStr(request_status),
                       "; Message: ", PyStr(error)>>,
                     error, request_status)

\* every exception of the try statement is wrapped
create_invoice_response_wrap_all(a, response_json) ==
    LET t == create_invoice_try(a, response_json) IN
    IF t.kind = "InvoiceInfo" THEN t ELSE Raise("InvalidResponseException", <<>>)

\* create_invoice, from the response on: the try statement and its handlers
create_invoice_response(a, response_json) ==
    LET t == create_invoice_try(a, response_json) IN
    IF t.kind = "InvoiceInfo" THEN t
    ELSE IF t.kind \in {"InvalidParameterException", "InvalidSignatureException",
                        "CreateInvoiceException"} THEN t
    ELSE Raise("InvalidResponseException", <<>>)

\* the status dispatch get_balance and payoff share; ok is the 200 branch
\* and tail what payoff appends to the text of its 422 error
StatusDispatch(response_json, tail, ok) ==
    LET status == Get(response_json, "status", Str("error"))
        rstatus == Get(response_json, "status", PyNone)
        rerror == Get(response_json, "error", PyNone)
        code == PyInt(rstatus)
    IN  IF PyEq(status, 422) THEN
            LET error == Get(response_json, "error", Dict(<<>>, <<>>)) IN
            IF error.k /= "dict" THEN Raise("AttributeError", <<>>)
            ELSE RaiseAPI("InvalidParameterException",
                          <<"Invalid parameters: ">> \o Interleave(error.items, ", ") \o tail,
                          Str(PyStr(rerror)), code.v)
        ELSE IF ~PyEq(status, 200) THEN
            IF code.exc /= "" THEN Raise(code.exc, <<>>)
            ELSE RaiseAPI("APIError", <<"API error: ", PyStr(rerror)>>,
                          Str(PyStr(rerror)), code.v)
        ELSE ok

\* get_balance, from the response on
get_balance_response(response_json) ==
    LET data == response_json.data IN
    StatusDispatch(response_json, <<>>,
        IF data.k = "absent"
        THEN Raise("InvalidResponseException", <<"No '", "data", "' field">>)
        ELSE IF data.k /= "dict" THEN Raise("TypeError", <<>>)
        ELSE IF ~Has(data.f, "balance")
        THEN Raise("InvalidResponseException", <<"No '", "balance", "' field">>)
        ELSE Return("balance", <<data.f["balance"]>>))

\* payoff, from the response on
payoff_response(response_json) ==
    LET data == response_json.data IN
    StatusDispatch(response_json,
        <<"; Message: ", PyStr(Get(response_json, "error", Str("")))>>,
        IF data.k = "absent"
        THEN Raise("InvalidResponseException", <<"No '", "data", "' field">>)
        ELSE IF data.k /= "dict" THEN Raise("TypeError", <<>>)
        ELSE IF ~Has(data.f, "payoff_id")
        THEN Raise("InvalidResponseException", <<"No '", "payoff", "' field">>)
        ELSE Return("payoff_id", <<Str(PyStr(data.f["payoff_id"]))>>))

-----------------------------------------------------------------------------
(* Webhook.  headers is the mapping in insertion order, a sequence of       *)
(* [name |-> ..., value |-> ...]; received_data maps every key of the       *)
(* payload universe to its value, Absent when the key is not in it.         *)

\* str.lower on the header names of the model
Lower ==
    ("Authorization" :> "authorization") @@ ("AUTHORIZATION" :> "authorization")
    @@ ("authorization" :> "authorization") @@ ("Content-Type" :> "content-type")
    @@ ("X-Authorization" :> "x-authorization")

\* the keys as received, not lowercased
LoweredKeys_as_received(headers) == {headers[i].name : i \in 1..Len(headers)}

\* headers.keys() after {k.lower(): v for k, v in headers.items()}
LoweredKeys(headers) == {Lower[headers[i].name] : i \in 1..Len(headers)}

\* the KeyError handler of handle_webhook
WebhookKeyError ==
    Raise("InvalidResponseException", <<"Error while reading data from dictionary">>)

\* x if (x := d.get("custom_field"), None) is not None else "": the condition
\* compares the tuple (x, None) with None
CustomField(received_data) ==
    LET custom_fields == Get(received_data, "custom_field", PyNone)
        tuple == [k |-> "tuple", items |-> <<custom_fields, PyNone>>]
    IN  IF tuple.k /= "null" THEN custom_fields ELSE Str("")

\* handle_webhook: the try statement
WebhookMapper(received_data) ==
    LET parsed == IF ~Has(received_data, "payed")
                  THEN [exc |-> "KeyError", v |-> Absent]
                  ELSE Strptime(received_data["payed"])
        pay_time == IF parsed.exc \in {"ValueError", "KeyError"} THEN Now ELSE parsed.v
        amount == PyFloat(received_data["amount"])
        credited == PyFloat(received_data["credited"])
    IN  IF parsed.exc \notin {"", "ValueError", "KeyError"} THEN Raise(parsed.exc, <<>>)
        ELSE IF ~Has(received_data, "invoice_id") THEN WebhookKeyError
        ELSE IF ~Has(received_data, "status") THEN WebhookKeyError
        ELSE IF ~Has(received_data, "amount") THEN WebhookKeyError
        ELSE IF amount.exc /= "" THEN Raise(amount.exc, <<>>)
        ELSE IF ~Has(received_data, "credited") THEN WebhookKeyError
        ELSE IF credited.exc /= "" THEN Raise(credited.exc, <<>>)
        ELSE Return("SuccessfulInvoiceInfo",
                    <<received_data["invoice_id"],
                      Get(received_data, "order_id", Str("")),
                      received_data["status"],
                      Bool(received_data["status"] = Str("success")),
                      pay_time,
                      amount.v,
                      credited.v,
                      CustomField(received_data)>>)

\* handle_webhook(self, received_data, headers); key is self.secret_key
handle_webhook(key, received_data, headers) ==
    IF "authorization" \notin LoweredKeys(headers)
    THEN Raise("InvalidWebhookSignatureException", <<"No 'Authorization' header">>)
    ELSE WebhookMapper(received_data)

-----------------------------------------------------------------------------
(* Inputs *)

\* the number of concurrent invocations on one client (SpecConc)
NumCalls == 2

Keys == {"secret-A", "secret-B"}

\* create_invoice: no optional argument supplied, and all of them supplied
InvoiceArgsNone ==
    [amount |-> Num(10), shop_id |-> Str("shop-1"), order_id |-> PyNone,
     expire |-> PyNone, custom_field |-> PyNone, comment |-> PyNone,
     webhook_url |-> PyNone, fail_url |-> PyNone, success_url |-> PyNone,
     include_service |-> PyNone, exclude_service |-> PyNone]

InvoiceArgsAll ==
    [amount |-> Num(10), shop_id |-> Str("shop-1"), order_id |-> Str("order-1"),
     expire |-> Num(30), custom_field |-> Str("cf"), comment |-> Str("note"),
     webhook_url |-> Str("https://m/hook"), fail_url |-> Str("https://m/fail"),
     success_url |-> Str("https://m/ok"),
     include_service |-> List(<<"card", "sbp">>), exclude_service |-> List(<<"qiwi">>)]

InvoiceOptionalArgs ==
    {"order_id", "expire", "custom_field", "comment", "webhook_url", "fail_url",
     "success_url", "include_service", "exclude_service"}

CreateInvoiceArgs ==
    {InvoiceArgsNone, InvoiceArgsAll}
    \cup {[InvoiceArgsNone EXCEPT ![n] = InvoiceArgsAll[n]] : n \in InvoiceOptionalArgs}
    \cup {[InvoiceArgsAll EXCEPT ![n] = PyNone] : n \in InvoiceOptionalArgs}
    \cup {[InvoiceArgsNone EXCEPT !.order_id = Str("")]}

GetBalanceArgs == {[shop_id |-> Str("shop-1")], [shop_id |-> Str("shop-2")]}

PayoffArgs ==
    {[shop_id |-> Str("shop-1"), amount |-> Num(10), service |-> Str(sv),
      wallet |-> Str("4100-1"), order_id |-> o, hook_url |-> h] :
        sv \in {"card", "qiwi"},
        o \in {PyNone, Str("order-1")},
        h \in {PyNone, Str("https://m/hook")}}

StatusValues ==
    {Absent, PyNone, Num(200), Num(422), Num(401), Num(500), Num(0),
     Str("error"), Str("200")}

ErrorValues ==
    {Absent, PyNone, Str("Unauthorized"), List(<<"bad">>), Dict(<<>>, <<>>),
     Dict(<<"sum">>, <<"too small">>),
     Dict(<<"sum", "orderId">>, <<"too small", "duplicate">>)}

DataKeys ==
    {"id", "amount", "expired", "status", "shop_id", "url", "merchantName", "comment",
     "include_service", "exclude_service", "balance", "payoff_id"}

NoData == [key \in DataKeys |-> Absent]

\* `data` that is no dictionary: absent, null, a string, a list, a number
NonDictData == {DV(k, NoData) : k \in {"absent", "null", "str", "list", "num"}}

InvoiceDataAll ==
    [key \in DataKeys |->
        CASE key = "id" -> Str("inv-1")
          [] key = "amount" -> Num(10)
          [] key = "expired" -> Str("2023-01-02 03:04:05")
          [] key = "status" -> Num(1)
          [] key = "shop_id" -> Str("shop-1")
          [] key = "url" -> Str("https://pay.lava.ru/inv-1")
          [] key = "merchantName" -> Str("Shop")
          [] key = "comment" -> Str("note")
          [] key = "include_service" -> List(<<"card">>)
          [] key = "exclude_service" -> List(<<"qiwi">>)
          [] OTHER -> Absent]

InvoiceDataKeys == InvoiceRequired \cup {"merchantName", "comment", "include_service",
                                         "exclude_service"}

Without(d, ks) == [key \in DOMAIN d |-> IF key \in ks THEN Absent ELSE d[key]]
WithNull(d, ks) == [key \in DOMAIN d |-> IF key \in ks THEN PyNone ELSE d[key]]

InvoiceDataValues ==
    NonDictData
    \cup {DV("dict", Without(InvoiceDataAll, ks)) :
            ks \in {{}, {"id", "url"}, InvoiceDataKeys \ InvoiceRequired, InvoiceDataKeys}
                   \cup {{key} : key \in InvoiceDataKeys}}
    \cup {DV("dict", WithNull(InvoiceDataAll, ks)) :
            ks \in {{"include_service"}, {"exclude_service"},
                    {"include_service", "exclude_service"}}}

BalanceDataValues ==
    NonDictData
    \cup {DV("dict", [NoData EXCEPT !["balance"] = b]) :
            b \in {Absent, PyNone, Num(150), Str("150.5")}}

PayoffDataValues ==
    NonDictData
    \cup {DV("dict", [NoData EXCEPT !["payoff_id"] = b]) :
            b \in {Absent, PyNone, Num(77), Str("payoff-1")}}

Responses(dataValues) ==
    {[status |-> st, error |-> e, data |-> d] :
        st \in StatusValues, e \in ErrorValues, d \in dataValues}

NoResponse == [status |-> Absent, error |-> Absent, data |-> DV("absent", NoData)]

WebhookPayloads ==
    {[invoice_id |-> i, order_id |-> o, status |-> st, amount |-> am, credited |-> cr,
      payed |-> pd, custom_field |-> cf] :
        i \in {Absent, Str("inv-1")},
        o \in {Absent, Str("order-1")},
        st \in {Absent, Str("success"), Str("error")},
        am \in {Absent, Str("10.0"), Num(10), Str("abc"), PyNone},
        cr \in {Absent, Str("9.5"), Str("abc")},
        pd \in {Absent, Str("2023-01-02 03:04:05"), Str("02.01.2023"), PyNone, Num(5)},
        cf \in {Absent, Str("cf"), PyNone}}

Header(name, value) == [name |-> name, value |-> value]

HeaderValues == {"token", generate_signature("secret-A", "{}")}

WebhookHeaders ==
    {<<>>, <<Header("Content-Type", "application/json")>>,
     <<Header("X-Authorization", "token")>>,
     <<Header("Content-Type", "application/json"), Header("AUTHORIZATION", "token")>>}
    \cup {<<Header(n, v)>> :
            n \in {"Authorization", "authorization", "AUTHORIZATION"}, v \in HeaderValues}

\* the inputs of the concurrent specification
ConcInvoiceArgs == {InvoiceArgsNone}
ConcBalanceArgs == {[shop_id |-> Str("shop-1")]}
ConcPayoffArgs ==
    {[shop_id |-> Str("shop-1"), amount |-> Num(10), service |-> Str("card"),
      wallet |-> Str("4100-1"), order_id |-> Str("order-1"), hook_url |-> PyNone]}
ConcStatusError == {<<Num(401), Str("Unauthorized")>>, <<Absent, Absent>>,
                    <<Num(422), Dict(<<"sum">>, <<"too small">>)>>}
ConcResponses(okData) ==
    {[status |-> Num(200), error |-> Absent, data |-> DV("dict", okData)]}
    \cup {[status |-> se[1], error |-> se[2], data |-> DV("absent", NoData)] :
            se \in ConcStatusError}
ConcPayloads ==
    {[invoice_id |-> Str("inv-1"), order_id |-> Absent, status |-> Str("success"),
      amount |-> Str("10.0"), credited |-> Str("9.5"), payed |-> Absent,
      custom_field |-> Absent]}
ConcHeaders == {<<>>, <<Header("Authorization", "token")>>}

-----------------------------------------------------------------------------
(* The state machine *)

Procs == DOMAIN pc

InitCalls(n) ==
    /\ secret_key \in Keys
    /\ op = [p \in 1..n |-> ""]
    /\ pc = [p \in 1..n |-> "idle"]
    /\ args = [p \in 1..n |-> <<>>]
    /\ request = [p \in 1..n |-> NoRequest]
    /\ response = [p \in 1..n |-> NoResponse]
    /\ outcome = [p \in 1..n |-> NoOutcome]
    /\ posts = [p \in 1..n |-> 0]

\* invocation p builds, signs and posts its request, and suspends
Call(p, name, a, req) ==
    /\ pc[p] = "idle"
    /\ op' = [op EXCEPT ![p] = name]
    /\ args' = [args EXCEPT ![p] = a]
    /\ request' = [request EXCEPT ![p] = req]
    /\ posts' = [posts EXCEPT ![p] = @ + 1]
    /\ pc' = [pc EXCEPT ![p] = "awaiting"]
    /\ UNCHANGED <<secret_key, response, outcome>>

\* invocation p posts again when the response is an error
Resume_retry(p, name, response_json, result) ==
    /\ pc[p] = "awaiting"
    /\ op[p] = name
    /\ response' = [response EXCEPT ![p] = response_json]
    /\ outcome' = [outcome EXCEPT ![p] = result]
    /\ IF result.value = <<>>
       THEN posts' = [posts EXCEPT ![p] = @ + 1]
       ELSE posts' = posts
    /\ pc' = [pc EXCEPT ![p] = "done"]
    /\ UNCHANGED <<secret_key, op, args, request>>

\* invocation p resumes with the decoded response and returns or raises
Resume(p, name, response_json, result) ==
    /\ pc[p] = "awaiting"
    /\ op[p] = name
    /\ response' = [response EXCEPT ![p] = response_json]
    /\ outcome' = [outcome EXCEPT ![p] = result]
    /\ pc' = [pc EXCEPT ![p] = "done"]
    /\ UNCHANGED <<secret_key, op, args, request, posts>>

create_invoice_call(p, a, gen) ==
    Call(p, "create_invoice", a, create_invoice_request(secret_key, a, gen))

create_invoice_return(p, response_json) ==
    Resume(p, "create_invoice", response_json,
           create_invoice_response(args[p], response_json))

get_balance_call(p, a) ==
    Call(p, "get_balance", a, get_balance_request(secret_key, a))

get_balance_return(p, response_json) ==
    Resume(p, "get_balance", response_json, get_balance_response(response_json))

payoff_call(p, a, gen) ==
    Call(p, "payoff", a, payoff_request(secret_key, a, gen))

payoff_return(p, response_json) ==
    Resume(p, "payoff", response_json, payoff_response(response_json))

handle_webhook_call(p, received_data, headers) ==
    /\ pc[p] = "idle"
    /\ op' = [op EXCEPT ![p] = "handle_webhook"]
    /\ args' = [args EXCEPT ![p] = [received_data |-> received_data, headers |-> headers]]
    /\ outcome' = [outcome EXCEPT ![p] = handle_webhook(secret_key, received_data, headers)]
    /\ pc' = [pc EXCEPT ![p] = "done"]
    /\ UNCHANGED <<secret_key, request, response, posts>>

InvoiceResponses == Responses(InvoiceDataValues)
BalanceResponses == Responses(BalanceDataValues)
PayoffResponses == Responses(PayoffDataValues)

Idle(p) == pc[p] = "idle"
Awaiting(p, name) == pc[p] = "awaiting" /\ op[p] = name

CreateInvoiceCall ==
    \E p \in Procs : Idle(p) /\
        \E a \in CreateInvoiceArgs, gen \in generate_random_order_id :
            create_invoice_call(p, a, gen)
CreateInvoiceReturn ==
    \E p \in Procs : Awaiting(p, "create_invoice") /\
        \E r \in InvoiceResponses : create_invoice_return(p, r)
GetBalanceCall ==
    \E p \in Procs : Idle(p) /\ \E a \in GetBalanceArgs : get_balance_call(p, a)
GetBalanceReturn ==
    \E p \in Procs : Awaiting(p, "get_balance") /\
        \E r \in BalanceResponses : get_balance_return(p, r)
PayoffCall ==
    \E p \in Procs : Idle(p) /\
        \E a \in PayoffArgs, gen \in generate_random_order_id : payoff_call(p, a, gen)
PayoffReturn ==
    \E p \in Procs : Awaiting(p, "payoff") /\
        \E r \in PayoffResponses : payoff_return(p, r)
HandleWebhook ==
    \E p \in Procs : Idle(p) /\
        \E d \in WebhookPayloads, h \in WebhookHeaders : handle_webhook_call(p, d, h)

Init == InitCalls(1)

Next ==
    \/ CreateInvoiceCall
    \/ CreateInvoiceReturn
    \/ GetBalanceCall
    \/ GetBalanceReturn
    \/ PayoffCall
    \/ PayoffReturn
    \/ HandleWebhook

\* one invocation, over the full range of arguments, responses and payloads
Spec == Init /\ [][Next]_vars

ConcInvoiceResponses == ConcResponses(InvoiceDataAll)
ConcBalanceResponses == ConcResponses([NoData EXCEPT !["balance"] = Num(150)])
ConcPayoffResponses == ConcResponses([NoData EXCEPT !["payoff_id"] = Num(77)])

ConcCreateInvoiceCall ==
    \E p \in Procs : Idle(p) /\
        \E a \in ConcInvoiceArgs, gen \in generate_random_order_id :
            create_invoice_call(p, a, gen)
ConcCreateInvoiceReturn ==
    \E p \in Procs : Awaiting(p, "create_invoice") /\
        \E r \in ConcInvoiceResponses : create_invoice_return(p, r)
ConcGetBalanceCall ==
    \E p \in Procs : Idle(p) /\ \E a \in ConcBalanceArgs : get_balance_call(p, a)
ConcGetBalanceReturn ==
    \E p \in Procs : Awaiting(p, "get_balance") /\
        \E r \in ConcBalanceResponses : get_balance_return(p, r)
ConcPayoffCall ==
    \E p \in Procs : Idle(p) /\
        \E a \in ConcPayoffArgs, gen \in generate_random_order_id : payoff_call(p, a, gen)
ConcPayoffReturn ==
    \E p \in Procs : Awaiting(p, "payoff") /\
        \E r \in ConcPayoffResponses : payoff_return(p, r)
ConcHandleWebhook ==
    \E p \in Procs : Idle(p) /\
        \E d \in ConcPayloads, h \in ConcHeaders : handle_webhook_call(p, d, h)

InitConc == InitCalls(NumCalls)

NextConc ==
    \/ ConcCreateInvoiceCall
    \/ ConcCreateInvoiceReturn
    \/ ConcGetBalanceCall
    \/ ConcGetBalanceReturn
    \/ ConcPayoffCall
    \/ ConcPayoffReturn
    \/ ConcHandleWebhook

\* NumCalls invocations on one client, interleaved at their suspension points
SpecConc == InitConc /\ [][NextConc]_vars

-----------------------------------------------------------------------------
(* Properties *)

Done(p, name) == pc[p] = "done" /\ op[p] = name

\* the `error` payload as the create_invoice handler reads it
ErrorPayload(r) == IF r.error.k = "absent" THEN Str("") ELSE r.error

\* the value of `status`, the default of create_invoice when it is missing
StatusValue(r) == IF r.status.k = "absent" THEN Num(0) ELSE r.status

\* C1: create_invoice classifies every decoded JSON-object response into
\* exactly one outcome, by its status: 200 with a data object holding all
\* required fields returns an InvoiceInfo; 200 without data raises
\* InvalidResponseException; 422 with an object error raises
\* InvalidParameterException with code 422 whose text names every key of
\* error; 422 with a non-object error raises InvalidResponseException; 401
\* raises InvalidSignatureException with code 401 and the error payload as
\* message; any other status, a missing one included, raises
\* CreateInvoiceException itself with the status value as code (0, the
\* default, when missing) and the error payload as message.
C1_CreateInvoiceDispatch ==
    \A p \in Procs : Done(p, "create_invoice") =>
        LET r == response[p]
            o == outcome[p]
        IN  /\ o.kind \in {"InvoiceInfo", "InvalidResponseException",
                           "InvalidParameterException", "InvalidSignatureException",
                           "CreateInvoiceException"}
            /\ (/\ PyEq(r.status, 200)
                /\ r.data.k = "dict"
                /\ \A key \in InvoiceRequired : Has(r.data.f, key))
                    => o.kind = "InvoiceInfo"
            /\ (PyEq(r.status, 200) /\ r.data.k = "absent")
                    => o.kind = "InvalidResponseException"
            /\ (PyEq(r.status, 422) /\ r.error.k = "dict")
                    => /\ o.kind = "InvalidParameterException"
                       /\ o.code = Num(422)
                       /\ \A i \in 1..Len(r.error.items) :
                            r.error.items[i] \in Range(o.description)
            /\ (PyEq(r.status, 422) /\ r.error.k /= "dict")
                    => o.kind = "InvalidResponseException"
            /\ PyEq(r.status, 401)
                    => /\ o.kind = "InvalidSignatureException"
                       /\ o.code = Num(401)
                       /\ o.message = ErrorPayload(r)
            /\ (~PyEq(r.status, 200) /\ ~PyEq(r.status, 422) /\ ~PyEq(r.status, 401))
                    => /\ o.kind = "CreateInvoiceException"
                       /\ o.code = StatusValue(r)
                       /\ o.message = ErrorPayload(r)

\* a 422 response whose error names two fields was classified
C1_Witness ==
    \E p \in Procs :
        /\ Done(p, "create_invoice")
        /\ PyEq(response[p].status, 422)
        /\ response[p].error = Dict(<<"sum", "orderId">>, <<"too small", "duplicate">>)
        /\ outcome[p].kind = "InvalidParameterException"

\* the four-way dispatch as create_invoice makes it, for the generic error
\* variant of the operation
DispatchAsCreateInvoice(r, o, generic) ==
    /\ PyEq(r.status, 401)
            => o.kind = "InvalidSignatureException" /\ o.code = Num(401)
    /\ (PyEq(r.status, 422) /\ r.error.k /= "dict")
            => o.kind = "InvalidResponseException"
    /\ (PyEq(r.status, 422) /\ r.error.k = "dict")
            => o.kind = "InvalidParameterException" /\ o.code = Num(422)
    /\ (~PyEq(r.status, 200) /\ ~PyEq(r.status, 422) /\ ~PyEq(r.status, 401))
            => o.kind = generic /\ o.code = r.status

\* C2: the four-way dispatch of get_balance and of payoff is that of
\* create_invoice: 401 raises InvalidSignatureException with code 401, 422
\* with a non-object error raises InvalidResponseException, 422 with an
\* object error raises InvalidParameterException with code 422, any other
\* non-200 status (a missing one included) raises APIError with the status
\* value as code.
C2_SameDispatch ==
    \A p \in Procs : (Done(p, "get_balance") \/ Done(p, "payoff")) =>
        DispatchAsCreateInvoice(response[p], outcome[p], "APIError")

SuccessKinds == {"InvoiceInfo", "SuccessfulInvoiceInfo", "balance", "payoff_id"}

DocumentedErrors ==
    {"InvalidResponseException", "InvalidParameterException",
     "InvalidSignatureException", "CreateInvoiceException", "APIError",
     "InvalidWebhookSignatureException"}

\* C3: each of the four operations, whatever the shape of the decoded
\* response or payload, returns its success value or fails with one of the
\* documented exceptions; no other exception reaches the caller.
C3_OnlyDocumentedErrors ==
    \A p \in Procs : pc[p] = "done" =>
        outcome[p].kind \in SuccessKinds \cup DocumentedErrors

\* the headers with every value replaced by v
WithValue(headers, v) == [i \in 1..Len(headers) |-> Header(headers[i].name, v)]

C5_CustomFieldDefault ==
    \A p \in Procs :
        (Done(p, "handle_webhook") /\ outcome[p].kind = "SuccessfulInvoiceInfo") =>
            /\ outcome[p].value[8].k /= "null"
            /\ ~Has(args[p].received_data, "custom_field")
                    => outcome[p].value[8] = Str("")

WebhookRequired == {"invoice_id", "status", "amount", "credited"}

\* C6: with an authorization header present, a payload missing any of
\* invoice_id, status, amount, credited raises InvalidResponseException;
\* otherwise the result has order_id of the payload or "", payed true exactly
\* when status is "success", pay_time the parsed `payed` when present and
\* well-formed and the current time otherwise; an absent or malformed
\* `payed` alone causes no error.
C6_WebhookMapping ==
    \A p \in Procs : Done(p, "handle_webhook") =>
        LET h == args[p].headers
            d == args[p].received_data
            o == outcome[p]
            wellFormed == d["payed"].k = "str" /\ d["payed"].s \in DOMAIN StrptimeOfString
        IN  ("authorization" \in {Lower[h[i].name] : i \in 1..Len(h)}) =>
                IF \E key \in WebhookRequired : ~Has(d, key)
                THEN o.kind = "InvalidResponseException"
                ELSE /\ o.kind = "SuccessfulInvoiceInfo"
                     /\ o.value[2] = (IF Has(d, "order_id") THEN d["order_id"] ELSE Str(""))
                     /\ o.value[4] = Bool(d["status"] = Str("success"))
                     /\ o.value[5] = (IF wellFormed
                                      THEN DateTime(StrptimeOfString[d["payed"].s])
                                      ELSE Now)

\* C7: create_invoice with status 200 and a data object raises
\* InvalidResponseException and returns nothing when any of id, amount,
\* expired, status, shop_id, url is missing; otherwise the InvoiceInfo carries
\* those six unchanged, merchant_name and comment with defaults "Merchant"
\* and "Comment", and include_service / exclude_service as the response's
\* lists, empty when absent or null, whatever the request's arguments were.
C7_InvoiceMapping ==
    \A p \in Procs :
        (/\ Done(p, "create_invoice")
         /\ PyEq(response[p].status, 200)
         /\ response[p].data.k = "dict") =>
            LET f == response[p].data.f
                o == outcome[p]
                listOf(key) == IF f[key].k \in {"absent", "null"} THEN List(<<>>) ELSE f[key]
            IN  IF \E key \in InvoiceRequired : ~Has(f, key)
                THEN o.kind = "InvalidResponseException" /\ o.value = <<>>
                ELSE /\ o.kind = "InvoiceInfo"
                     /\ o.value[1] = f["id"]
                     /\ o.value[2] = f["amount"]
                     /\ o.value[3] = f["expired"]
                     /\ o.value[4] = f["status"]
                     /\ o.value[5] = f["shop_id"]
                     /\ o.value[7] = f["url"]
                     /\ o.value[6] = (IF Has(f, "merchantName") THEN f["merchantName"]
                                      ELSE Str("Merchant"))
                     /\ o.value[8] = (IF Has(f, "comment") THEN f["comment"]
                                      ELSE Str("Comment"))
                     /\ o.value[9] = listOf("include_service")
                     /\ o.value[10] = listOf("exclude_service")

\* the request named service lists, the response none, and the result's are empty
C7_Witness ==
    \E p \in Procs :
        /\ Done(p, "create_invoice")
        /\ PyEq(response[p].status, 200)
        /\ response[p].data.k = "dict"
        /\ args[p].include_service = List(<<"card", "sbp">>)
        /\ ~Has(response[p].data.f, "include_service")
        /\ ~Has(response[p].data.f, "merchantName")
        /\ outcome[p].kind = "InvoiceInfo"
        /\ outcome[p].value[9] = List(<<>>)

\* C8: get_balance and payoff with status 200: a missing data raises
\* InvalidResponseException; a data object without balance (get_balance) or
\* payoff_id (payoff) raises InvalidResponseException whose message names the
\* missing field; otherwise get_balance returns data.balance unchanged and
\* payoff returns data.payoff_id as a string.
C8_BalancePayoffMapping ==
    \A p \in Procs :
        ((Done(p, "get_balance") \/ Done(p, "payoff")) /\ PyEq(response[p].status, 200)) =>
            LET data == response[p].data
                o == outcome[p]
                field == IF op[p] = "get_balance" THEN "balance" ELSE "payoff_id"
            IN  /\ data.k = "absent" => o.kind = "InvalidResponseException"
                /\ (data.k = "dict" /\ ~Has(data.f, field))
                        => /\ o.kind = "InvalidResponseException"
                           /\ field \in Range(o.description)
                /\ (data.k = "dict" /\ Has(data.f, field))
                        => IF op[p] = "get_balance"
                           THEN o.kind = "balance" /\ o.value = <<data.f[field]>>
                           ELSE /\ o.kind = "payoff_id"
                                /\ o.value = <<Str(PyStr(data.f[field]))>>

\* the fields of each operation in their fixed order, the argument each
\* carries, and those that are always sent
FieldOrder(name) ==
    CASE name = "create_invoice" ->
            <<"orderId", "shopId", "sum", "customFields", "comment", "hookUrl",
              "failUrl", "successUrl", "expire", "includeService", "excludeService">>
      [] name = "get_balance" -> <<"shopId">>
      [] name = "payoff" ->
            <<"orderId", "shopId", "amount", "service", "walletTo", "hookUrl">>

FieldArgument(name) ==
    CASE name = "create_invoice" ->
            ("orderId" :> "order_id") @@ ("shopId" :> "shop_id") @@ ("sum" :> "amount")
            @@ ("customFields" :> "custom_field") @@ ("comment" :> "comment")
            @@ ("hookUrl" :> "webhook_url") @@ ("failUrl" :> "fail_url")
            @@ ("successUrl" :> "success_url") @@ ("expire" :> "expire")
            @@ ("includeService" :> "include_service")
            @@ ("excludeService" :> "exclude_service")
      [] name = "get_balance" -> ("shopId" :> "shop_id")
      [] name = "payoff" ->
            ("orderId" :> "order_id") @@ ("shopId" :> "shop_id") @@ ("amount" :> "amount")
            @@ ("service" :> "service") @@ ("walletTo" :> "wallet")
            @@ ("hookUrl" :> "hook_url")

RequiredFields(name) ==
    CASE name = "create_invoice" -> {"orderId", "shopId", "sum"}
      [] name = "get_balance" -> {"shopId"}
      [] name = "payoff" -> {"orderId", "shopId", "amount", "service", "walletTo"}

HttpOps == {"create_invoice", "get_balance", "payoff"}

OwnOutcome(p) ==
    CASE op[p] = "create_invoice" -> create_invoice_response(args[p], response[p])
      [] op[p] = "get_balance" -> get_balance_response(response[p])
      [] op[p] = "payoff" -> payoff_response(response[p])
      [] op[p] = "handle_webhook" ->
            handle_webhook(secret_key, args[p].received_data, args[p].headers)

\* the POSTs of invocation p: one from the call on, none for handle_webhook
OnePost(p) ==
    posts[p] = IF pc[p] \in {"awaiting", "done"} /\ op[p] \in HttpOps THEN 1 ELSE 0

\* C10: under any interleaving of invocations on one client, each
\* create_invoice, get_balance and payoff issues exactly one POST and none
\* after its response, whatever the outcome; handle_webhook issues none; no
\* step changes the secret key or the state of another invocation; each
\* outcome is that of the invocation's own arguments and response.
C10_OnePostNoSharedState ==
    /\ [](\A p \in Procs : OnePost(p) /\ (pc[p] = "done" => outcome[p] = OwnOutcome(p)))
    /\ [][/\ secret_key' = secret_key
          /\ \A p \in Procs :
                pc'[p] = pc[p] =>
                    /\ outcome'[p] = outcome[p]
                    /\ posts'[p] = posts[p]
                    /\ request'[p] = request[p]
                    /\ response'[p] = response[p]
          /\ \A p \in Procs : pc[p] = "done" => pc'[p] = "done"]_vars

\* two invocations interleave: one has failed on a 401, the other is suspended
C10_Witness ==
    \E p, q \in Procs :
        /\ p /= q
        /\ pc[p] = "done"
        /\ outcome[p].kind = "InvalidSignatureException"
        /\ posts[p] = 1
        /\ pc[q] = "awaiting"
        /\ posts[q] = 1

====
